---- MODULE Spec2Model ----
(***************************************************************************)
(* Model of the ferrous-kernel UEFI boot loader: the region classifier,    *)
(* the memory map builder (src/boot/src/memory.rs), the BootInfo record    *)
(* (src/boot/src/boot_info.rs) and the sequential boot flow of efi_main    *)
(* (src/boot/src/main.rs).                                                 *)
(*                                                                         *)
(* u64 values are kept at their full width.  A number is a little-endian   *)
(* tuple of WideLimbs limbs of 16 bits each; a u64 is a number whose       *)
(* limbs above the first U64Limbs are zero.  The extra limb holds the      *)
(* mathematical results (sums and products) that exceed 64 bits.           *)
(***************************************************************************)
EXTENDS Integers, Sequences, FiniteSets, TLC

VARIABLES
    overflow_checks,  \* build profile: TRUE = debug (arithmetic overflow panics)
    pc,               \* position of efi_main
    status,           \* Status returned by efi_main, "NONE" while running
    fault,            \* why efi_main stopped without returning, "none" otherwise
    err,              \* uefi::Error returned by retrieve_memory_map, "none" otherwise
    descriptors,      \* the firmware's descriptor sequence (memory_map's result)
    idx,              \* number of descriptors consumed by the for loop
    regions,          \* local `regions` of from_uefi_descriptors
    total_memory,     \* local `total_memory` of from_uefi_descriptors
    usable_memory,    \* local `usable_memory` of from_uefi_descriptors
    memory_map,       \* Option: the MemoryMap owned by efi_main
    acpi_found,       \* Option: result of find_acpi_tables
    fb_found,         \* Option: result of get_framebuffer_info
    boot_info,        \* Option: the BootInfo created by efi_main
    stages,           \* history: the boot stages in the order they happened
    probe,            \* a call of a pure function or accessor and its result
    printed           \* the region lines print_memory_summary has written

vars == <<overflow_checks, pc, status, fault, err, descriptors, idx, regions,
          total_memory, usable_memory, memory_map, acpi_found, fb_found,
          boot_info, stages, probe, printed>>

(***************************************************************************)
(* Bounds of the model.                                                    *)
(***************************************************************************)
\* Longest descriptor sequence the firmware returns.
MaxDescs == 3

(***************************************************************************)
(* u64 arithmetic on limb tuples.                                          *)
(***************************************************************************)
LimbBase == 2^16
U64Limbs == 64 \div 16
WideLimbs == U64Limbs + 1

\* The number n (0 <= n < 2^31) as a limb tuple.
Num(n) ==
    [i \in 1..WideLimbs |->
        IF i = 1 THEN n % LimbBase
        ELSE IF i = 2 THEN (n \div LimbBase) % LimbBase
        ELSE 0]

\* 2^k as a limb tuple.
Pow2(k) ==
    [i \in 1..WideLimbs |->
        IF i = (k \div 16) + 1 THEN 2^(k % 16) ELSE 0]

Zero == Num(0)

\* u64::MAX = 2^64 - 1
U64_MAX == [i \in 1..WideLimbs |-> IF i <= U64Limbs THEN LimbBase - 1 ELSE 0]

\* Does the number fit in 64 bits?
FitsU64(a) == \A i \in (U64Limbs + 1)..WideLimbs : a[i] = 0

\* a mod 2^64
WrapU64(a) == [i \in 1..WideLimbs |-> IF i <= U64Limbs THEN a[i] ELSE 0]

RECURSIVE CarryInto(_, _, _)
\* Carry entering limb i of a + b.
CarryInto(a, b, i) ==
    IF i = 1 THEN 0
    ELSE (a[i - 1] + b[i - 1] + CarryInto(a, b, i - 1)) \div LimbBase

\* The mathematical sum a + b (below LimbBase^WideLimbs).
Add(a, b) ==
    [i \in 1..WideLimbs |-> (a[i] + b[i] + CarryInto(a, b, i)) % LimbBase]

RECURSIVE MulCarryInto(_, _, _)
\* Carry entering limb i of a * k, k a small number.
MulCarryInto(a, k, i) ==
    IF i = 1 THEN 0
    ELSE (a[i - 1] * k + MulCarryInto(a, k, i - 1)) \div LimbBase

\* The mathematical product a * k for a u64 a and a small k (k <= LimbBase).
MulSmall(a, k) ==
    [i \in 1..WideLimbs |-> (a[i] * k + MulCarryInto(a, k, i)) % LimbBase]

RECURSIVE LessFrom(_, _, _)
\* a < b, comparing limbs i, i-1, ..., 1.
LessFrom(a, b, i) ==
    IF i = 0 THEN FALSE
    ELSE IF a[i] /= b[i] THEN a[i] < b[i]
    ELSE LessFrom(a, b, i - 1)

Less(a, b) == LessFrom(a, b, WideLimbs)
Leq(a, b) == ~Less(b, a)

RECURSIVE RemFrom(_, _, _)
\* The number made of limbs i and above, modulo the small number k.
RemFrom(a, k, i) ==
    IF i > WideLimbs THEN 0
    ELSE (RemFrom(a, k, i + 1) * LimbBase + a[i]) % k

\* The quotient a / k, rounded down, for a small k (k <= 2^15).
DivSmall(a, k) ==
    [i \in 1..WideLimbs |-> (RemFrom(a, k, i + 1) * LimbBase + a[i]) \div k]

\* u64::wrapping_add in the place of saturating_add.
wrapping_add(a, b) == WrapU64(Add(a, b))

\* u64::saturating_add
saturating_add(a, b) ==
    LET s == Add(a, b) IN IF FitsU64(s) THEN s ELSE U64_MAX

\* Option values: None is the empty tuple, Some(x) the one-element tuple.
None == <<>>
Some(x) == <<x>>
IsSome(o) == o /= None
Unwrap(o) == o[1]

(***************************************************************************)
(* The region classifier.                                                  *)
(***************************************************************************)
\* The firmware type codes the classifier names (uefi MemoryType constants).
RecognizedTypes ==
    {"RESERVED", "LOADER_CODE", "LOADER_DATA", "BOOT_SERVICES_CODE",
     "BOOT_SERVICES_DATA", "RUNTIME_SERVICES_CODE", "RUNTIME_SERVICES_DATA",
     "CONVENTIONAL", "UNUSABLE", "ACPI_RECLAIM", "ACPI_NON_VOLATILE",
     "MMIO", "MMIO_PORT_SPACE", "PERSISTENT_MEMORY"}

\* Codes the firmware may report that the classifier does not name.
OtherTypes == {"PAL_CODE", "UNACCEPTED", "OEM_0x80000001"}

UefiMemoryType == RecognizedTypes \cup OtherTypes

MemoryRegionType ==
    {"Usable", "Reserved", "AcpiReclaimable", "AcpiNvs", "Mmio",
     "MmioPortSpace", "BootServicesCode", "BootServicesData",
     "RuntimeServicesCode", "RuntimeServicesData", "LoaderCode",
     "LoaderData", "Conventional", "Unusable", "Persistent", "Unknown"}

\* The classifier failing open: an unnamed code is taken for free memory.
From_fail_open(uefi_type) ==
    CASE uefi_type = "RESERVED" -> "Reserved"
      [] uefi_type = "LOADER_CODE" -> "LoaderCode"
      [] uefi_type = "LOADER_DATA" -> "LoaderData"
      [] uefi_type = "BOOT_SERVICES_CODE" -> "BootServicesCode"
      [] uefi_type = "BOOT_SERVICES_DATA" -> "BootServicesData"
      [] uefi_type = "RUNTIME_SERVICES_CODE" -> "RuntimeServicesCode"
      [] uefi_type = "RUNTIME_SERVICES_DATA" -> "RuntimeServicesData"
      [] uefi_type = "CONVENTIONAL" -> "Conventional"
      [] uefi_type = "UNUSABLE" -> "Unusable"
      [] uefi_type = "ACPI_RECLAIM" -> "AcpiReclaimable"
      [] uefi_type = "ACPI_NON_VOLATILE" -> "AcpiNvs"
      [] uefi_type = "MMIO" -> "Mmio"
      [] uefi_type = "MMIO_PORT_SPACE" -> "MmioPortSpace"
      [] uefi_type = "PERSISTENT_MEMORY" -> "Persistent"
      [] OTHER -> "Conventional"

\* impl From<UefiMemoryType> for MemoryRegionType
From(uefi_type) ==
    CASE uefi_type = "RESERVED" -> "Reserved"
      [] uefi_type = "LOADER_CODE" -> "LoaderCode"
      [] uefi_type = "LOADER_DATA" -> "LoaderData"
      [] uefi_type = "BOOT_SERVICES_CODE" -> "BootServicesCode"
      [] uefi_type = "BOOT_SERVICES_DATA" -> "BootServicesData"
      [] uefi_type = "RUNTIME_SERVICES_CODE" -> "RuntimeServicesCode"
      [] uefi_type = "RUNTIME_SERVICES_DATA" -> "RuntimeServicesData"
      [] uefi_type = "CONVENTIONAL" -> "Conventional"
      [] uefi_type = "UNUSABLE" -> "Unusable"
      [] uefi_type = "ACPI_RECLAIM" -> "AcpiReclaimable"
      [] uefi_type = "ACPI_NON_VOLATILE" -> "AcpiNvs"
      [] uefi_type = "MMIO" -> "Mmio"
      [] uefi_type = "MMIO_PORT_SPACE" -> "MmioPortSpace"
      [] uefi_type = "PERSISTENT_MEMORY" -> "Persistent"
      [] OTHER -> "Unknown"

\* The usable set widened by the runtime services tags.
is_usable_with_runtime(region_type) ==
    region_type \in {"Usable", "Conventional", "BootServicesCode",
                     "BootServicesData", "LoaderCode", "LoaderData",
                     "AcpiReclaimable", "RuntimeServicesCode",
                     "RuntimeServicesData"}

\* The usable set widened by memory-mapped I/O.
is_usable_with_mmio(region_type) ==
    region_type \in {"Usable", "Conventional", "BootServicesCode",
                     "BootServicesData", "LoaderCode", "LoaderData",
                     "AcpiReclaimable", "Mmio"}

\* MemoryRegionType::is_usable
is_usable(region_type) ==
    region_type \in {"Usable", "Conventional", "BootServicesCode",
                     "BootServicesData", "LoaderCode", "LoaderData",
                     "AcpiReclaimable"}

\* The matches!(region_type, Mmio | MmioPortSpace) test of the builder.
is_mmio(region_type) == region_type \in {"Mmio", "MmioPortSpace"}

(***************************************************************************)
(* Memory regions and the memory map.                                      *)
(***************************************************************************)
PAGE_SIZE == 4096

\* A uefi MemoryDescriptor, as far as the builder reads it.
MemoryDescriptor(start, pages, ty, att) ==
    [phys_start |-> start, page_count |-> pages, ty |-> ty, att |-> att]

\* MemoryRegion::new
MemoryRegion_new(start, size, region_type, attributes) ==
    [start |-> start, size |-> size, region_type |-> region_type,
     attributes |-> attributes]

\* MemoryMap::new
MemoryMap_new == [regions |-> <<>>, total_memory |-> Zero, usable_memory |-> Zero]

\* The mathematical value of desc.page_count * PAGE_SIZE.
SizeProduct(desc) == MulSmall(desc.page_count, PAGE_SIZE)

\* `desc.page_count * PAGE_SIZE` overflows u64: a panic when the build has
\* overflow checks, a wrapped value otherwise.
MulOverflows(desc) == ~FitsU64(SizeProduct(desc))

\* The value of `size` when the multiplication does not panic.
RegionSize(desc) == WrapU64(SizeProduct(desc))

\* The region the loop body builds from one descriptor.
RegionOf(desc) ==
    MemoryRegion_new(desc.phys_start, RegionSize(desc), From(desc.ty), desc.att)

\* total_memory after the loop body has seen a region of this type and size.
TotalAfter(total, region_type, size) ==
    IF ~is_mmio(region_type) THEN saturating_add(total, size) ELSE total

\* The usable total guarded by the MMIO test of the overall total.
UsableAfter_not_mmio(usable, region_type, size) ==
    IF ~is_mmio(region_type) THEN saturating_add(usable, size) ELSE usable

\* usable_memory after the loop body has seen a region of this type and size.
UsableAfter(usable, region_type, size) ==
    IF is_usable(region_type) THEN saturating_add(usable, size) ELSE usable

\* Vec::push allocates when the vector is full: capacity 0, then 4, 8, 16, ...
PushAllocates(len) == len = 0 \/ len \in {4 * 2^k : k \in 0..4}

\* Insertion of r behind every element whose key is not greater (stable).
InsertByKey(sorted, r) ==
    LET k == Cardinality({i \in 1..Len(sorted) : Leq(sorted[i].start, r.start)})
    IN SubSeq(sorted, 1, k) \o <<r>> \o SubSeq(sorted, k + 1, Len(sorted))

RECURSIVE SortPrefix(_, _)
\* The first n elements of s, stably sorted by start.
SortPrefix(s, n) ==
    IF n = 0 THEN <<>> ELSE InsertByKey(SortPrefix(s, n - 1), s[n])

\* The sort left out: the list stays in firmware order.
sort_by_key_skipped(s) == s

\* regions.sort_by_key(|r| r.start): a stable sort
sort_by_key(s) == SortPrefix(s, Len(s))

\* MemoryMap::region_count
region_count(m) == Len(m.regions)

\* The filter left out: every position of the list.
usable_regions_unfiltered(m) == [i \in 1..Len(m.regions) |-> i]

\* MemoryMap::usable_regions: the positions, in list order, of the regions
\* the filter lets through (the iterator yields references into the list).
usable_regions(m) ==
    SelectSeq([i \in 1..Len(m.regions) |-> i],
              LAMBDA i : is_usable(m.regions[i].region_type))

RECURSIVE MaxBySizeFrom_first_wins(_, _, _)
\* The fold keeping the element seen so far on a tie as well (min_by_key's rule).
MaxBySizeFrom_first_wins(m, positions, n) ==
    IF n = 1 THEN positions[1]
    ELSE LET best == MaxBySizeFrom_first_wins(m, positions, n - 1)
             next == positions[n]
         IN IF Leq(m.regions[next].size, m.regions[best].size)
            THEN best ELSE next

RECURSIVE MaxBySizeFrom(_, _, _)
\* Iterator::max_by_key over the first n positions of `positions`: the fold
\* keeps the element seen so far only when it is strictly greater.
MaxBySizeFrom(m, positions, n) ==
    IF n = 1 THEN positions[1]
    ELSE LET best == MaxBySizeFrom(m, positions, n - 1)
             next == positions[n]
         IN IF Less(m.regions[next].size, m.regions[best].size)
            THEN best ELSE next

\* MemoryMap::largest_usable_region: the position of the returned region.
largest_usable_region(m) ==
    LET positions == usable_regions(m)
    IN IF Len(positions) = 0 THEN None
       ELSE Some(MaxBySizeFrom(m, positions, Len(positions)))

\* The mathematical value of start + size.
EndSum(r) == Add(r.start, r.size)

\* `region.start + region.size` overflows u64: a panic when the build has
\* overflow checks, a wrapped value otherwise.
EndOverflows(r) == ~FitsU64(EndSum(r))

\* MemoryRegion::end, and the same sum in print_memory_summary: the value of
\* `start + size` when the addition does not panic.
MemoryRegion_end(r) == WrapU64(EndSum(r))

\* The first n region lines of print_memory_summary (start and end address).
SummaryLines(rs, n) ==
    [i \in 1..n |-> [start |-> rs[i].start, size |-> rs[i].size,
                     end |-> MemoryRegion_end(rs[i])]]

(***************************************************************************)
(* BootInfo.                                                               *)
(***************************************************************************)
\* BootInfo::new
BootInfo_new(map) ==
    [memory_map |-> map, acpi_rsdp_address |-> None, framebuffer |-> None]

\* BootInfo::with_all
with_all(map, acpi_rsdp, fb) ==
    [memory_map |-> map, acpi_rsdp_address |-> acpi_rsdp, framebuffer |-> fb]

\* PixelFormat (Bitmask carries its four masks)
PixelFormat ==
    {"Rgb", "Bgr", "Unknown"}
        \cup {[red |-> 255, green |-> 65280, blue |-> 16711680, reserved |-> 0]}

\* FramebufferInfo::new
FramebufferInfo_new(base_address, width, height, stride, pixel_format) ==
    [base_address |-> base_address, width |-> width, height |-> height,
     stride |-> stride, pixel_format |-> pixel_format]

\* A setter that rebuilds the record and so drops the framebuffer.
set_acpi_rsdp_address_rebuild(info, address) ==
    [BootInfo_new(info.memory_map) EXCEPT !.acpi_rsdp_address = Some(address)]

\* BootInfo::set_acpi_rsdp_address
set_acpi_rsdp_address(info, address) ==
    [info EXCEPT !.acpi_rsdp_address = Some(address)]

\* BootInfo::set_framebuffer
set_framebuffer(info, fb) ==
    [info EXCEPT !.framebuffer = Some(fb)]

\* MemoryMap::total_memory and MemoryMap::usable_memory
MemoryMap_total_memory(m) == m.total_memory
MemoryMap_usable_memory(m) == m.usable_memory

\* BootInfo::memory_map
BootInfo_memory_map(info) == info.memory_map

\* BootInfo::total_memory and BootInfo::usable_memory
BootInfo_total_memory(info) == MemoryMap_total_memory(info.memory_map)
BootInfo_usable_memory(info) == MemoryMap_usable_memory(info.memory_map)

\* BootInfo::total_memory_mb: total_memory() / (1024 * 1024), the division by
\* 2^20 done as two divisions by 1024 (the same rounded-down quotient).
total_memory_mb(info) == DivSmall(DivSmall(BootInfo_total_memory(info), 1024), 1024)

\* BootInfo::usable_memory_mb: usable_memory() / (1024 * 1024)
usable_memory_mb(info) == DivSmall(DivSmall(BootInfo_usable_memory(info), 1024), 1024)

\* BootInfo::acpi_rsdp_address
acpi_rsdp_address(info) == info.acpi_rsdp_address

\* BootInfo::framebuffer
framebuffer(info) == info.framebuffer

(***************************************************************************)
(* What the firmware may answer.                                           *)
(***************************************************************************)
\* 2^52 - 1 pages: the largest page count whose byte size fits in a u64.
MaxFitPages == [i \in 1..WideLimbs |->
                  IF i < U64Limbs THEN LimbBase - 1 ELSE IF i = U64Limbs THEN 15 ELSE 0]

\* 2^52 + 1 pages: the byte size exceeds u64 (2^64 + 4096).
OverflowPages == Add(Pow2(52), Num(1))

\* Descriptors the firmware combines freely: out of address order, with equal
\* starts, overlaps, zero pages, sizes that saturate the totals, a page count
\* whose byte size overflows, MMIO ranges and a code the classifier does not name.
CoreDescriptors ==
    { MemoryDescriptor(Num(0),     Num(1),        "CONVENTIONAL",       Num(15)),
      MemoryDescriptor(Num(4096),  Num(2),        "RESERVED",           Num(0)),
      MemoryDescriptor(Num(12288), Num(1),        "CONVENTIONAL",       Num(15)),
      MemoryDescriptor(Num(4096),  MaxFitPages,   "BOOT_SERVICES_DATA", Num(8)),
      MemoryDescriptor(Num(12288), Num(2),        "MMIO",               Pow2(63)),
      MemoryDescriptor(Num(0),     Num(0),        "LOADER_DATA",        Num(15)),
      MemoryDescriptor(Num(0),     OverflowPages, "RESERVED",           Num(0)),
      MemoryDescriptor(Num(4096),  Num(2),        "PAL_CODE",           Num(1)) }

\* One descriptor of every firmware type code.
TypeDescriptors ==
    { MemoryDescriptor(Num(4096), Num(1), ty, Num(15)) : ty \in UefiMemoryType }

\* The descriptor sequences boot_services.memory_map may return.
FirmwareMaps ==
    UNION { [1..n -> CoreDescriptors] : n \in 0..MaxDescs }
        \cup { <<d>> : d \in TypeDescriptors }

\* Entries of the UEFI configuration table.
ConfigEntries ==
    { [guid |-> "ACPI2_GUID", address |-> Num(983040)],
      [guid |-> "ACPI_GUID", address |-> Num(917504)],
      [guid |-> "SMBIOS_GUID", address |-> Num(1015808)] }

\* The configuration tables system_table.config_table() may hold.
ConfigTables == UNION { [1..n -> ConfigEntries] : n \in 0..2 }

\* The first entry of the table with this guid.
FirstWithGuid(table, guid) ==
    LET hits == SelectSeq(table, LAMBDA entry : entry.guid = guid)
    IN IF Len(hits) = 0 THEN None ELSE Some(hits[1].address)

\* find_acpi_tables: ACPI 2.0 first, ACPI 1.0 as the fallback
find_acpi_tables(table) ==
    IF IsSome(FirstWithGuid(table, "ACPI2_GUID"))
    THEN FirstWithGuid(table, "ACPI2_GUID")
    ELSE FirstWithGuid(table, "ACPI_GUID")

\* What the graphics output protocol lookup may meet.
GopStates ==
    { [handle |-> FALSE, open |-> FALSE],
      [handle |-> TRUE, open |-> FALSE],
      [handle |-> TRUE, open |-> TRUE] }

\* get_framebuffer_info: none unless the handle is found and the protocol opens
get_framebuffer_info(gop) ==
    IF ~gop.handle THEN None
    ELSE IF ~gop.open THEN None
    ELSE Some([base_address |-> Pow2(31), width |-> 800, height |-> 600])

(***************************************************************************)
(* The boot flow of efi_main.                                              *)
(***************************************************************************)
\* No classifier call is being observed.
NoProbe ==
    [op |-> "none", ty |-> "RESERVED", tag |-> "Reserved",
     region_type |-> "none", usable |-> FALSE]

Init ==
    /\ overflow_checks \in BOOLEAN
    /\ pc = "init"
    /\ status = "NONE"
    /\ fault = "none"
    /\ err = "none"
    /\ descriptors = <<>>
    /\ idx = 0
    /\ regions = <<>>
    /\ total_memory = Zero
    /\ usable_memory = Zero
    /\ memory_map = None
    /\ acpi_found = None
    /\ fb_found = None
    /\ boot_info = None
    /\ stages = <<>>
    /\ probe = NoProbe
    /\ printed = <<>>

\* efi_main stops without returning a Status.
Halt(reason) ==
    /\ pc' = "halted"
    /\ fault' = reason

\* efi_main returns.
Return(s) ==
    /\ pc' = "returned"
    /\ status' = s

\* uefi::helpers::init(..).expect(..), console and banner.
InitHelpers ==
    /\ pc = "init"
    /\ \E ok \in BOOLEAN :
         IF ok
         THEN /\ pc' = "allocate_pool"
              /\ stages' = Append(stages, "init")
              /\ UNCHANGED fault
         ELSE /\ Halt("init_failed")
              /\ UNCHANGED stages
    /\ UNCHANGED <<overflow_checks, status, err, descriptors, idx, regions,
                   total_memory, usable_memory, memory_map, acpi_found,
                   fb_found, boot_info, probe, printed>>

\* retrieve_memory_map: memory_map_size and allocate_pool(..)?
AllocatePool ==
    /\ pc = "allocate_pool"
    /\ stages' = Append(stages, "allocate_pool")
    /\ \E ok \in BOOLEAN :
         IF ok
         THEN /\ pc' = "memory_map"
              /\ UNCHANGED <<status, err>>
         ELSE /\ err' = "OUT_OF_RESOURCES"
              /\ Return("ABORTED")
    /\ UNCHANGED <<overflow_checks, fault, descriptors, idx, regions,
                   total_memory, usable_memory, memory_map, acpi_found,
                   fb_found, boot_info, probe, printed>>

\* retrieve_memory_map: boot_services.memory_map(buffer_slice)?
\* maps: the descriptor sequences the firmware may hand back.
FirmwareMemoryMapFrom(maps) ==
    /\ pc = "memory_map"
    /\ stages' = Append(stages, "memory_map")
    /\ \/ /\ \E descs \in maps : descriptors' = descs
          /\ pc' = "build"
          /\ UNCHANGED <<status, err>>
       \/ /\ err' = "BUFFER_TOO_SMALL"
          /\ Return("ABORTED")
          /\ UNCHANGED descriptors
    /\ UNCHANGED <<overflow_checks, fault, idx, regions, total_memory,
                   usable_memory, memory_map, acpi_found, fb_found,
                   boot_info, probe, printed>>

FirmwareMemoryMap == FirmwareMemoryMapFrom(FirmwareMaps)

\* One iteration of the for loop of from_uefi_descriptors.
BuildStep ==
    /\ pc = "build"
    /\ idx < Len(descriptors)
    /\ LET desc == descriptors[idx + 1]
           region == RegionOf(desc)
       IN \/ /\ overflow_checks /\ MulOverflows(desc)
             /\ Halt("mul_overflow")
             /\ UNCHANGED <<idx, regions, total_memory, usable_memory, stages>>
          \/ /\ ~(overflow_checks /\ MulOverflows(desc))
             /\ PushAllocates(Len(regions))
             /\ Halt("alloc_error")
             /\ UNCHANGED <<idx, regions, total_memory, usable_memory, stages>>
          \/ /\ ~(overflow_checks /\ MulOverflows(desc))
             /\ total_memory' = TotalAfter(total_memory, region.region_type, region.size)
             /\ usable_memory' = UsableAfter(usable_memory, region.region_type, region.size)
             /\ regions' = Append(regions, region)
             /\ idx' = idx + 1
             /\ stages' = Append(stages, "classify")
             /\ UNCHANGED <<pc, fault>>
    /\ UNCHANGED <<overflow_checks, status, err, descriptors, memory_map,
                   acpi_found, fb_found, boot_info, probe, printed>>

\* The end of from_uefi_descriptors: the in-place sort and the MemoryMap made
\* of the locals; retrieve_memory_map returns Ok(memory_map).
FinishBuild ==
    /\ pc = "build"
    /\ idx = Len(descriptors)
    /\ regions' = sort_by_key(regions)
    /\ memory_map' = Some([regions |-> regions', total_memory |-> total_memory,
                           usable_memory |-> usable_memory])
    /\ stages' = Append(stages, "sort")
    /\ pc' = "summary"
    /\ UNCHANGED <<overflow_checks, status, fault, err, descriptors, idx,
                   total_memory, usable_memory, acpi_found, fb_found,
                   boot_info, probe, printed>>

\* print_memory_summary: per region a formatted size string (an allocation)
\* and the end address region.start + region.size.
PrintMemorySummary ==
    /\ pc = "summary"
    /\ LET rs == Unwrap(memory_map).regions
           Panics(i) == overflow_checks /\ EndOverflows(rs[i])
       IN \/ /\ \E k \in 1..Len(rs) :
                   /\ \A j \in 1..(k - 1) : ~Panics(j)
                   /\ printed' = SummaryLines(rs, k - 1)
             /\ Halt("alloc_error_format")
             /\ UNCHANGED stages
          \/ /\ \E k \in 1..Len(rs) :
                   /\ \A j \in 1..(k - 1) : ~Panics(j)
                   /\ Panics(k)
                   /\ printed' = SummaryLines(rs, k - 1)
             /\ Halt("add_overflow")
             /\ UNCHANGED stages
          \/ /\ \A j \in 1..Len(rs) : ~Panics(j)
             /\ printed' = SummaryLines(rs, Len(rs))
             /\ pc' = "acpi"
             /\ stages' = Append(stages, "summary")
             /\ UNCHANGED fault
    /\ UNCHANGED <<overflow_checks, status, err, descriptors, idx, regions,
                   total_memory, usable_memory, memory_map, acpi_found,
                   fb_found, boot_info, probe>>

\* efi_main: find_acpi_tables(&system_table), reported on the console only.
FindAcpiTables ==
    /\ pc = "acpi"
    /\ \E table \in ConfigTables : acpi_found' = find_acpi_tables(table)
    /\ stages' = Append(stages, "acpi")
    /\ pc' = "gop"
    /\ UNCHANGED <<overflow_checks, status, fault, err, descriptors, idx,
                   regions, total_memory, usable_memory, memory_map, fb_found,
                   boot_info, probe, printed>>

\* A missing framebuffer escalated to a failed boot.
GetFramebufferInfo_fatal ==
    /\ pc = "gop"
    /\ \E gop \in GopStates :
         /\ fb_found' = get_framebuffer_info(gop)
         /\ IF IsSome(get_framebuffer_info(gop))
            THEN pc' = "boot_info" /\ UNCHANGED status
            ELSE Return("ABORTED")
    /\ stages' = Append(stages, "gop")
    /\ UNCHANGED <<overflow_checks, fault, err, descriptors, idx,
                   regions, total_memory, usable_memory, memory_map, acpi_found,
                   boot_info, probe, printed>>

\* efi_main: get_framebuffer_info(boot_services), reported on the console only.
GetFramebufferInfo ==
    /\ pc = "gop"
    /\ \E gop \in GopStates : fb_found' = get_framebuffer_info(gop)
    /\ stages' = Append(stages, "gop")
    /\ pc' = "boot_info"
    /\ UNCHANGED <<overflow_checks, status, fault, err, descriptors, idx,
                   regions, total_memory, usable_memory, memory_map, acpi_found,
                   boot_info, probe, printed>>

\* The BootInfo composed as soon as the memory map is there, ahead of the
\* two discoveries.
CreateBootInfo_early ==
    /\ pc = "acpi"
    /\ boot_info' = Some(BootInfo_new(Unwrap(memory_map)))
    /\ stages' = Append(stages, "boot_info")
    /\ pc' = "handoff"
    /\ UNCHANGED <<overflow_checks, status, fault, err, descriptors, idx,
                   regions, total_memory, usable_memory, memory_map, acpi_found,
                   fb_found, probe, printed>>

\* efi_main: let boot_info = BootInfo::new(memory_map)
CreateBootInfo ==
    /\ pc = "boot_info"
    /\ boot_info' = Some(BootInfo_new(Unwrap(memory_map)))
    /\ stages' = Append(stages, "boot_info")
    /\ pc' = "handoff"
    /\ UNCHANGED <<overflow_checks, status, fault, err, descriptors, idx,
                   regions, total_memory, usable_memory, memory_map, acpi_found,
                   fb_found, probe, printed>>

\* efi_main: the closing report and Status::SUCCESS
ReturnSuccess ==
    /\ pc = "handoff"
    /\ Return("SUCCESS")
    /\ stages' = Append(stages, "return")
    /\ UNCHANGED <<overflow_checks, fault, err, descriptors, idx, regions,
                   total_memory, usable_memory, memory_map, acpi_found,
                   fb_found, boot_info, probe, printed>>

Next ==
    \/ InitHelpers
    \/ AllocatePool
    \/ FirmwareMemoryMap
    \/ BuildStep
    \/ FinishBuild
    \/ PrintMemorySummary
    \/ FindAcpiTables
    \/ GetFramebufferInfo
    \/ CreateBootInfo
    \/ ReturnSuccess

Spec == Init /\ [][Next]_vars

(***************************************************************************)
(* The classifier's two pure functions, applied to every input.            *)
(***************************************************************************)
InitClassify ==
    /\ overflow_checks \in BOOLEAN
    /\ pc = "init"
    /\ status = "NONE"
    /\ fault = "none"
    /\ err = "none"
    /\ descriptors = <<>>
    /\ idx = 0
    /\ regions = <<>>
    /\ total_memory = Zero
    /\ usable_memory = Zero
    /\ memory_map = None
    /\ acpi_found = None
    /\ fb_found = None
    /\ boot_info = None
    /\ stages = <<>>
    /\ probe \in [op : {"pending"}, ty : UefiMemoryType, tag : MemoryRegionType,
                   region_type : {"none"}, usable : {FALSE}]
    /\ printed = <<>>

BootUnchanged ==
    UNCHANGED <<overflow_checks, pc, status, fault, err, descriptors, idx,
                regions, total_memory, usable_memory, memory_map, acpi_found,
                fb_found, boot_info, stages, printed>>

\* MemoryRegionType::from(ty)
CallFrom ==
    /\ probe.op = "pending"
    /\ probe' = [probe EXCEPT !.op = "from", !.region_type = From(probe.ty)]
    /\ BootUnchanged

\* tag.is_usable()
CallIsUsable ==
    /\ probe.op = "pending"
    /\ probe' = [probe EXCEPT !.op = "is_usable", !.usable = is_usable(probe.tag)]
    /\ BootUnchanged

\* region_type.is_usable() on the classifier's result, as the builder calls it
CallIsUsableOfFrom ==
    /\ probe.op = "from"
    /\ probe' = [probe EXCEPT !.op = "from_is_usable",
                              !.usable = is_usable(probe.region_type)]
    /\ BootUnchanged

NextClassify ==
    \/ CallFrom
    \/ CallIsUsable
    \/ CallIsUsableOfFrom

SpecClassify == InitClassify /\ [][NextClassify]_vars

(***************************************************************************)
(* The BootInfo after construction: its setters and its read-only          *)
(* accessors, applied in any order to the value efi_main has built.        *)
(***************************************************************************)
\* Descriptor sequences for the maps a BootInfo owns here, of every length
\* below MaxDescs and with a size that wraps in release builds.
HandoffDescriptors ==
    { MemoryDescriptor(Zero, Num(1), "CONVENTIONAL", 15),
      MemoryDescriptor(Num(PAGE_SIZE), Num(2), "RESERVED", 0),
      MemoryDescriptor(Num(3 * PAGE_SIZE), Num(1), "CONVENTIONAL", 15),
      MemoryDescriptor(Zero, OverflowPages, "RESERVED", 0) }

HandoffMaps ==
    UNION { [1..n -> HandoffDescriptors] : n \in 0..(MaxDescs - 1) }

\* Arguments of set_acpi_rsdp_address.
RsdpAddresses == { Num(917504), Num(983040) }

\* Arguments of set_framebuffer.
FramebufferInfos ==
    { FramebufferInfo_new(Pow2(31), 1024, 768, 4096, "Bgr"),
      FramebufferInfo_new(Pow2(31), 800, 600, 3200,
                          [red |-> 255, green |-> 65280, blue |-> 16711680,
                           reserved |-> 0]) }

\* The methods of BootInfo and MemoryMap that take &self.
ReadAccessors ==
    { "memory_map", "total_memory", "total_memory_mb", "usable_memory",
      "usable_memory_mb", "acpi_rsdp_address", "framebuffer", "region_count",
      "regions", "usable_regions", "largest_usable_region" }

BootFlowUnchanged ==
    UNCHANGED <<overflow_checks, pc, status, fault, err, descriptors, idx,
                regions, total_memory, usable_memory, memory_map, acpi_found,
                fb_found, stages, printed>>

\* BootInfo::with_all in place of BootInfo::new
CreateBootInfoWithAll ==
    /\ pc = "boot_info"
    /\ \E acpi_rsdp \in {None} \cup {Some(a) : a \in RsdpAddresses},
          fb \in {None} \cup {Some(f) : f \in FramebufferInfos} :
          boot_info' = Some(with_all(Unwrap(memory_map), acpi_rsdp, fb))
    /\ stages' = Append(stages, "boot_info")
    /\ pc' = "handoff"
    /\ UNCHANGED <<overflow_checks, status, fault, err, descriptors, idx,
                   regions, total_memory, usable_memory, memory_map, acpi_found,
                   fb_found, probe, printed>>

\* boot_info.set_acpi_rsdp_address(address)
SetAcpiRsdpAddress ==
    /\ pc = "handoff"
    /\ IsSome(boot_info)
    /\ \E address \in RsdpAddresses :
          boot_info' = Some(set_acpi_rsdp_address(Unwrap(boot_info), address))
    /\ probe' = [NoProbe EXCEPT !.op = "set_acpi_rsdp_address"]
    /\ BootFlowUnchanged

\* boot_info.set_framebuffer(framebuffer)
SetFramebuffer ==
    /\ pc = "handoff"
    /\ IsSome(boot_info)
    /\ \E fb \in FramebufferInfos :
          boot_info' = Some(set_framebuffer(Unwrap(boot_info), fb))
    /\ probe' = [NoProbe EXCEPT !.op = "set_framebuffer"]
    /\ BootFlowUnchanged

\* Any &self method of BootInfo or of its MemoryMap.
ReadBootInfo ==
    /\ pc = "handoff"
    /\ IsSome(boot_info)
    /\ \E op \in ReadAccessors : probe' = [NoProbe EXCEPT !.op = op]
    /\ UNCHANGED boot_info
    /\ BootFlowUnchanged

NextBootInfo ==
    \/ InitHelpers
    \/ AllocatePool
    \/ FirmwareMemoryMapFrom(HandoffMaps)
    \/ BuildStep
    \/ FinishBuild
    \/ PrintMemorySummary
    \/ FindAcpiTables
    \/ GetFramebufferInfo
    \/ CreateBootInfo
    \/ CreateBootInfoWithAll
    \/ SetAcpiRsdpAddress
    \/ SetFramebuffer
    \/ ReadBootInfo
    \/ ReturnSuccess

SpecBootInfo == Init /\ [][NextBootInfo]_vars

(***************************************************************************)
(* Properties.                                                             *)
(***************************************************************************)
\* from_uefi_descriptors has returned its map.
Built == IsSome(memory_map)
TheMap == Unwrap(memory_map)

RECURSIVE SumSizesAt(_, _)
\* The mathematical sum of the sizes of the regions at the positions in S.
SumSizesAt(rs, S) ==
    IF S = {} THEN Zero
    ELSE LET i == CHOOSE j \in S : TRUE
         IN Add(rs[i].size, SumSizesAt(rs, S \ {i}))

\* min(2^64 - 1, n)
ClampU64(n) == IF FitsU64(n) THEN n ELSE U64_MAX

\* How often x occurs in the sequence s.
Occurrences(s, x) == Cardinality({i \in 1..Len(s) : s[i] = x})

\* The regions the descriptors stand for, in firmware order.
RegionsOfInput == [i \in 1..Len(descriptors) |-> RegionOf(descriptors[i])]

\* C1: the built region list is sorted non-decreasing by start and holds
\* exactly the regions of the input descriptors, each as often as it was
\* given: as many regions as descriptors, duplicates, overlaps and zero-page
\* descriptors included.
C1_SortedAndComplete ==
    Built =>
        /\ \A i \in 1..(Len(TheMap.regions) - 1) :
              Leq(TheMap.regions[i].start, TheMap.regions[i + 1].start)
        /\ region_count(TheMap) = Len(descriptors)
        /\ \A i \in 1..Len(descriptors) :
              Occurrences(TheMap.regions, RegionsOfInput[i])
                  = Occurrences(RegionsOfInput, RegionsOfInput[i])

\* C1 witness: a map built from three descriptors given out of address
\* order, two of them at the same start, one of them with zero pages.
C1_Witness ==
    /\ Built
    /\ Len(descriptors) = 3
    /\ Less(descriptors[2].phys_start, descriptors[1].phys_start)
    /\ descriptors[3].phys_start = descriptors[2].phys_start
    /\ descriptors[3].page_count = Zero
    /\ region_count(TheMap) = 3

\* Positions of the regions counted in total_memory.
NonMmioPositions(m) ==
    {i \in 1..Len(m.regions) : ~is_mmio(m.regions[i].region_type)}

\* C2: total_memory() is min(2^64 - 1, sum of the sizes of the regions tagged
\* neither Mmio nor MmioPortSpace); when every region is Mmio or
\* MmioPortSpace it is 0 and every region is still in the list.
C2_TotalSaturates ==
    Built =>
        /\ TheMap.total_memory
              = ClampU64(SumSizesAt(TheMap.regions, NonMmioPositions(TheMap)))
        /\ NonMmioPositions(TheMap) = {} =>
              /\ TheMap.total_memory = Zero
              /\ region_count(TheMap) = Len(descriptors)

\* C2 witness: a built map whose non-MMIO sizes add up to more than
\* 2^64 - 1, beside an MMIO region that is in the list.
C2_Witness ==
    /\ Built
    /\ ~FitsU64(SumSizesAt(TheMap.regions, NonMmioPositions(TheMap)))
    /\ TheMap.total_memory = U64_MAX
    /\ \E i \in 1..Len(TheMap.regions) : is_mmio(TheMap.regions[i].region_type)

\* The set of positions usable_regions() yields.
UsablePositions(m) ==
    {usable_regions(m)[k] : k \in 1..Len(usable_regions(m))}

\* C3: usable_memory() is min(2^64 - 1, sum of the sizes of exactly the
\* regions usable_regions() yields).
C3_UsableConsistent ==
    Built =>
        TheMap.usable_memory
            = ClampU64(SumSizesAt(TheMap.regions, UsablePositions(TheMap)))

\* C3 witness: a built map whose usable sizes add up to more than 2^64 - 1,
\* beside a region that is not usable.
C3_Witness ==
    /\ Built
    /\ ~FitsU64(SumSizesAt(TheMap.regions, UsablePositions(TheMap)))
    /\ TheMap.usable_memory = U64_MAX
    /\ \E i \in 1..Len(TheMap.regions) : ~is_usable(TheMap.regions[i].region_type)

\* The scenario of two usable regions of one page around a reserved one.
ExampleDescriptors ==
    << MemoryDescriptor(Num(0),     Num(1), "CONVENTIONAL", Num(15)),
       MemoryDescriptor(Num(4096),  Num(2), "RESERVED",     Num(0)),
       MemoryDescriptor(Num(12288), Num(1), "CONVENTIONAL", Num(15)) >>

\* The region largest_usable_region() refers to.
LargestRegion == TheMap.regions[Unwrap(largest_usable_region(TheMap))]

\* C4 as stated: among the usable regions of maximum size,
\* largest_usable_region() returns the first in sorted order (the
\* lowest-address one); for the example scenario the region starting at 0x0.
C4_TieFirst ==
    (Built /\ IsSome(largest_usable_region(TheMap))) =>
        /\ \A j \in UsablePositions(TheMap) :
              TheMap.regions[j].size = LargestRegion.size
                  => Unwrap(largest_usable_region(TheMap)) <= j
        /\ descriptors = ExampleDescriptors => LargestRegion.start = Num(0)

\* C4 amended: among the usable regions of maximum size,
\* largest_usable_region() returns the last in sorted order (the
\* highest-address one); for the example scenario the region starting at
\* 0x3000.
C4_TieLast ==
    (Built /\ IsSome(largest_usable_region(TheMap))) =>
        /\ \A j \in UsablePositions(TheMap) :
              TheMap.regions[j].size = LargestRegion.size
                  => j <= Unwrap(largest_usable_region(TheMap))
        /\ descriptors = ExampleDescriptors => LargestRegion.start = Num(12288)

\* C4 witness: the example scenario is built, its two usable regions tie at
\* one page and the one at 0x3000 is returned.
C4_Witness ==
    /\ Built
    /\ descriptors = ExampleDescriptors
    /\ Len(usable_regions(TheMap)) = 2
    /\ TheMap.regions[1].size = TheMap.regions[3].size
    /\ largest_usable_region(TheMap) = Some(3)

\* C5: largest_usable_region() is none exactly when no region of the map has
\* a usable tag (the empty map included); otherwise it is a region of the map
\* with a usable tag whose size is at least the size of every usable region.
C5_LargestIsMaximum ==
    Built =>
        /\ largest_usable_region(TheMap) = None
              <=> ~\E i \in 1..Len(TheMap.regions) :
                      is_usable(TheMap.regions[i].region_type)
        /\ IsSome(largest_usable_region(TheMap)) =>
              /\ Unwrap(largest_usable_region(TheMap)) \in 1..Len(TheMap.regions)
              /\ is_usable(LargestRegion.region_type)
              /\ \A j \in 1..Len(TheMap.regions) :
                    is_usable(TheMap.regions[j].region_type)
                        => Leq(TheMap.regions[j].size, LargestRegion.size)

\* C5 witness: the returned region is followed by a smaller usable region and
\* the map holds a larger region that is not usable.
C5_Witness ==
    /\ Built
    /\ IsSome(largest_usable_region(TheMap))
    /\ \E j \in 1..Len(TheMap.regions) :
          /\ j > Unwrap(largest_usable_region(TheMap))
          /\ is_usable(TheMap.regions[j].region_type)
          /\ Less(TheMap.regions[j].size, LargestRegion.size)
    /\ \E j \in 1..Len(TheMap.regions) :
          /\ ~is_usable(TheMap.regions[j].region_type)
          /\ Less(LargestRegion.size, TheMap.regions[j].size)

\* The seven tags the kernel may claim and the nine it may not.
UsableTags ==
    {"Usable", "Conventional", "BootServicesCode", "BootServicesData",
     "LoaderCode", "LoaderData", "AcpiReclaimable"}
NotUsableTags ==
    {"Reserved", "AcpiNvs", "Mmio", "MmioPortSpace", "RuntimeServicesCode",
     "RuntimeServicesData", "Unusable", "Persistent", "Unknown"}

\* C6: is_usable answers true for exactly the seven usable tags and false for
\* the nine others, Unknown among them; the sixteen tags are all there are.
C6_IsUsableExact ==
    /\ UsableTags \cup NotUsableTags = MemoryRegionType
    /\ UsableTags \cap NotUsableTags = {}
    /\ probe.op = "is_usable" =>
          /\ probe.tag \in UsableTags => probe.usable
          /\ probe.tag \in NotUsableTags => ~probe.usable

\* C6 witness: is_usable has been called on Unknown and answered false.
C6_Witness ==
    /\ probe.op = "is_usable"
    /\ probe.tag = "Unknown"
    /\ ~probe.usable

\* The tag of the same name for each of the fourteen recognised codes.
ExpectedTag ==
    [ty \in RecognizedTypes |->
        CASE ty = "RESERVED" -> "Reserved"
          [] ty = "LOADER_CODE" -> "LoaderCode"
          [] ty = "LOADER_DATA" -> "LoaderData"
          [] ty = "BOOT_SERVICES_CODE" -> "BootServicesCode"
          [] ty = "BOOT_SERVICES_DATA" -> "BootServicesData"
          [] ty = "RUNTIME_SERVICES_CODE" -> "RuntimeServicesCode"
          [] ty = "RUNTIME_SERVICES_DATA" -> "RuntimeServicesData"
          [] ty = "CONVENTIONAL" -> "Conventional"
          [] ty = "UNUSABLE" -> "Unusable"
          [] ty = "ACPI_RECLAIM" -> "AcpiReclaimable"
          [] ty = "ACPI_NON_VOLATILE" -> "AcpiNvs"
          [] ty = "MMIO" -> "Mmio"
          [] ty = "MMIO_PORT_SPACE" -> "MmioPortSpace"
          [] ty = "PERSISTENT_MEMORY" -> "Persistent"]

\* Positions of the descriptors whose code is recognised and whose tag is usable.
RecognizedUsableInputs ==
    {i \in 1..Len(descriptors) :
        /\ descriptors[i].ty \in RecognizedTypes
        /\ ExpectedTag[descriptors[i].ty] \in UsableTags}

\* C7: every descriptor consumed by the loop has got the tag of its code's
\* name when the code is one of the fourteen recognised, Unknown otherwise,
\* never Usable; in the built map no region tagged Unknown is among
\* usable_regions() and usable_memory counts the recognised usable inputs only.
C7_ClassifierTotal ==
    /\ Cardinality(RecognizedTypes) = 14
    /\ pc = "build" =>
          \A i \in 1..Len(regions) :
              /\ regions[i].region_type =
                    IF descriptors[i].ty \in RecognizedTypes
                    THEN ExpectedTag[descriptors[i].ty] ELSE "Unknown"
              /\ regions[i].region_type /= "Usable"
    /\ Built =>
          /\ \A i \in 1..Len(TheMap.regions) :
                TheMap.regions[i].region_type \in MemoryRegionType \ {"Usable"}
          /\ \A i \in UsablePositions(TheMap) :
                TheMap.regions[i].region_type /= "Unknown"
          /\ Len(usable_regions(TheMap)) = Cardinality(RecognizedUsableInputs)
          /\ TheMap.usable_memory
                = ClampU64(SumSizesAt(RegionsOfInput, RecognizedUsableInputs))

\* C7 witness: a map built from one descriptor of an unrecognised code: its
\* region is tagged Unknown, counted in total_memory and not usable.
C7_Witness ==
    /\ Built
    /\ Len(descriptors) = 1
    /\ descriptors[1].ty \in OtherTypes
    /\ TheMap.regions[1].region_type = "Unknown"
    /\ TheMap.regions[1].size = Num(4096)
    /\ TheMap.total_memory = Num(4096)
    /\ TheMap.usable_memory = Zero
    /\ usable_regions(TheMap) = <<>>

\* The stage has happened in this boot.
Happened(stage) == \E i \in 1..Len(stages) : stages[i] = stage

\* C8: efi_main has returned exactly when it has a status; the status is
\* ABORTED exactly when memory-map retrieval failed (allocate_pool or the
\* firmware memory_map call returned an error), and then neither discovery
\* was attempted and no BootInfo exists; it is SUCCESS exactly when it
\* returned with the map retrieved, whatever the two discoveries found.
C8_AbortedIffRetrievalFails ==
    /\ pc = "returned" <=> status /= "NONE"
    /\ status \in {"NONE", "ABORTED", "SUCCESS"}
    /\ status = "ABORTED" <=> err /= "none"
    /\ err /= "none" => pc = "returned"
    /\ status = "ABORTED" =>
          /\ ~Happened("acpi") /\ ~Happened("gop") /\ ~Happened("boot_info")
          /\ acpi_found = None /\ fb_found = None
          /\ memory_map = None /\ boot_info = None
    /\ status = "SUCCESS" <=> (pc = "returned" /\ Built)
    /\ status = "SUCCESS" => IsSome(boot_info)

\* C8 witness: efi_main has returned SUCCESS although neither the ACPI
\* pointer nor the framebuffer was found.
C8_Witness ==
    /\ pc = "returned"
    /\ status = "SUCCESS"
    /\ Happened("acpi") /\ acpi_found = None
    /\ Happened("gop") /\ fb_found = None

\* C9: the BootInfo efi_main composes holds the ACPI address exactly when
\* ACPI discovery found it, and a framebuffer exactly when framebuffer
\* discovery found one.
C9_BootInfoCarriesFacts ==
    IsSome(boot_info) =>
        /\ acpi_rsdp_address(Unwrap(boot_info)) = acpi_found
        /\ IsSome(framebuffer(Unwrap(boot_info))) <=> IsSome(fb_found)

\* The errors of the firmware query.
FirmwareQueryErrors == {"OUT_OF_RESOURCES", "BUFFER_TOO_SMALL"}

\* C10: when the pool is exhausted while a region is appended, map
\* construction does not stop the program: its caller gets an error value
\* that is not one of the firmware-query errors.
C10_AllocFailureSurfaced ==
    fault = "alloc_error" =>
        /\ pc /= "halted"
        /\ err \notin FirmwareQueryErrors \cup {"none"}

\* C11: every end address print_memory_summary has written is the
\* mathematical sum start + size of its region, never that sum wrapped
\* modulo 2^64; MemoryRegion::end of every region of the map is that sum too.
C11_EndNeverWraps ==
    /\ \A i \in 1..Len(printed) :
          printed[i].end = Add(printed[i].start, printed[i].size)
    /\ Happened("summary") =>
          \A i \in 1..Len(TheMap.regions) :
              MemoryRegion_end(TheMap.regions[i]) = EndSum(TheMap.regions[i])

\* C13: every region the loop has appended has its descriptor's start and
\* attribute bits, the classified tag, and the mathematical product
\* page_count * 4096 as its size (zero for a zero-page descriptor), and the
\* built map holds one region per descriptor.
C13_RegionCarriesDescriptor ==
    /\ pc = "build" =>
          \A i \in 1..Len(regions) :
              /\ regions[i].start = descriptors[i].phys_start
              /\ regions[i].attributes = descriptors[i].att
              /\ regions[i].region_type = From(descriptors[i].ty)
              /\ regions[i].size = SizeProduct(descriptors[i])
              /\ descriptors[i].page_count = Zero => regions[i].size = Zero
    /\ Built => region_count(TheMap) = Len(descriptors)

\* The boot stages in the order of efi_main.
StageOrder ==
    <<"init", "allocate_pool", "memory_map", "classify", "sort", "summary",
      "acpi", "gop", "boot_info", "return">>

\* The place of a stage in StageOrder.
StageRank(stage) == CHOOSE k \in 1..Len(StageOrder) : StageOrder[k] = stage

\* How often the stage has happened in this boot.
StageCount(stage) == Cardinality({i \in 1..Len(stages) : stages[i] = stage})

\* C14: the stages of a boot happen in the fixed order memory map retrieval
\* (the firmware's descriptors acquired, then one classification per
\* descriptor, then the sort), ACPI discovery, framebuffer discovery, BootInfo
\* creation; no stage but the per-descriptor classification happens twice,
\* none is skipped, the sort follows the classification of every descriptor,
\* and a BootInfo exists only once the map is built and both discoveries
\* have run.
C14_StagesInOrder ==
    /\ \A i \in 1..Len(stages) : stages[i] \in {StageOrder[k] : k \in 1..Len(StageOrder)}
    /\ Len(stages) > 0 => stages[1] = "init"
    /\ \A i \in 1..(Len(stages) - 1) :
          \/ StageRank(stages[i + 1]) = StageRank(stages[i]) + 1
          \/ stages[i] = "classify" /\ stages[i + 1] = "classify"
          \/ stages[i] = "memory_map" /\ stages[i + 1] = "sort"
                 /\ Len(descriptors) = 0
    /\ StageCount("classify") = Len(regions)
    /\ StageCount("classify") > 0 => Happened("memory_map")
    /\ Happened("sort") <=> Built
    /\ Happened("sort") => StageCount("classify") = Len(descriptors)
    /\ Happened("boot_info") <=> IsSome(boot_info)
    /\ StageCount("boot_info") <= 1
    /\ IsSome(boot_info) =>
          /\ Built
          /\ Happened("summary") /\ Happened("acpi") /\ Happened("gop")

\* C14 witness: a boot that has run to its return over three descriptors.
C14_Witness ==
    /\ pc = "returned"
    /\ status = "SUCCESS"
    /\ stages = <<"init", "allocate_pool", "memory_map", "classify", "classify",
                  "classify", "sort", "summary", "acpi", "gop", "boot_info",
                  "return">>

\* C15: usable memory never exceeds total memory: in the running totals of
\* the builder, in the empty map of MemoryMap::new, in the built map, and in
\* BootInfo's byte and megabyte accessors.
C15_UsableAtMostTotal ==
    /\ Leq(usable_memory, total_memory)
    /\ Leq(MemoryMap_usable_memory(MemoryMap_new), MemoryMap_total_memory(MemoryMap_new))
    /\ Built => Leq(MemoryMap_usable_memory(TheMap), MemoryMap_total_memory(TheMap))
    /\ IsSome(boot_info) =>
          /\ Leq(BootInfo_usable_memory(Unwrap(boot_info)),
                 BootInfo_total_memory(Unwrap(boot_info)))
          /\ Leq(usable_memory_mb(Unwrap(boot_info)),
                 total_memory_mb(Unwrap(boot_info)))

\* C15 witness: a BootInfo whose total is saturated at 2^64 - 1 above a
\* smaller, non-zero usable total, beside an MMIO region counted in neither;
\* both megabyte values are 2^44 - 1.
C15_Witness ==
    /\ IsSome(boot_info)
    /\ BootInfo_total_memory(Unwrap(boot_info)) = U64_MAX
    /\ Less(BootInfo_usable_memory(Unwrap(boot_info)), U64_MAX)
    /\ Less(Zero, BootInfo_usable_memory(Unwrap(boot_info)))
    /\ \E i \in 1..Len(TheMap.regions) : is_mmio(TheMap.regions[i].region_type)
    /\ total_memory_mb(Unwrap(boot_info)) = [i \in 1..WideLimbs |->
          IF i <= 2 THEN LimbBase - 1 ELSE IF i = 3 THEN 4095 ELSE 0]
    /\ usable_memory_mb(Unwrap(boot_info)) = total_memory_mb(Unwrap(boot_info))


\* C12: once a BootInfo exists, every step keeps it, keeps the owned map's
\* region sequence, total_memory and usable_memory equal to the values
\* from_uefi_descriptors returned, and changes at most one of
\* acpi_rsdp_address and framebuffer: set_acpi_rsdp_address leaves the
\* framebuffer alone and set_framebuffer leaves acpi_rsdp_address alone.
C12_MapImmutable ==
    [][ IsSome(boot_info) =>
          /\ IsSome(boot_info')
          /\ BootInfo_memory_map(Unwrap(boot_info')).regions = TheMap.regions
          /\ BootInfo_total_memory(Unwrap(boot_info')) = TheMap.total_memory
          /\ BootInfo_usable_memory(Unwrap(boot_info')) = TheMap.usable_memory
          /\ TheMap' = TheMap
          /\ probe'.op = "set_acpi_rsdp_address" =>
                framebuffer(Unwrap(boot_info')) = framebuffer(Unwrap(boot_info))
          /\ probe'.op = "set_framebuffer" =>
                acpi_rsdp_address(Unwrap(boot_info')) =
                    acpi_rsdp_address(Unwrap(boot_info))
      ]_vars

\* set_acpi_rsdp_address has just acted on a BootInfo that holds a
\* framebuffer and owns a map of two regions.
C12_Witness ==
    /\ IsSome(boot_info)
    /\ probe.op = "set_acpi_rsdp_address"
    /\ IsSome(acpi_rsdp_address(Unwrap(boot_info)))
    /\ IsSome(framebuffer(Unwrap(boot_info)))
    /\ region_count(BootInfo_memory_map(Unwrap(boot_info))) = 2

====
